---- MODULE Spec2Model ----
(***************************************************************************)
(* Model of the RAG chat backend: the in-memory SessionManager             *)
(* (utils/sessionManager), the RAG orchestrator (services/ragService,      *)
(* services/pineconeService, services/ollamaService) and the chat route    *)
(* (routes/chat).                                                          *)
(*                                                                         *)
(* Time is in milliseconds, as Date.now() gives it.  Scores are in         *)
(* thousandths (0.7 is 700).  A text is the sequence of its lines.            *)
(***************************************************************************)
EXTENDS Integers, Sequences, FiniteSets, TLC

VARIABLES sessions, nextId, now, nextSweep, rag, req, last, bulk, client, storage

vars == <<sessions, nextId, now, nextSweep, rag, req, last, bulk, client, storage>>

-----------------------------------------------------------------------------
(* Bounds of the model *)

\* uuids handed out by uuidv4 over a run
MaxIds == 2
\* messages the store holds at a time in the store specification
MaxMsgs == 2
\* messages the store holds at a time in the history specification
MaxHistMsgs == 11
\* timer periods the clock runs through
MaxPeriods == 5
\* clock steps within one timer period in the expiry specification
TicksPerPeriod == 1
\* chat requests (and direct orchestrator calls) of a run
MaxReqs == 2
\* matches the vector index returns to one query of a direct call
MaxMatches == 2
\* entries of the history handed to a direct orchestrator call
MaxHistory == 2
\* entries of a history passed to generateRAGResponse when the prompt is studied
MaxLongHistory == 6
MaxDocs == 3
MaxClientMsgs == 4

-----------------------------------------------------------------------------
(* Program constants *)

ThirtyMinutes == 30 * 60 * 1000

FIFTEEN_MINUTES == 15 * 60 * 1000
ONE_HOUR == 60 * 60 * 1000
\* getConversation: session.messages.slice(-10)
GetSliceStart == -10

Roles == {"user", "assistant"}
Contents == {"hello"}

Min(a, b) == IF a < b THEN a ELSE b
Max(a, b) == IF a > b THEN a ELSE b

\* Date.prototype.toISOString: millisecond precision, so the instant is kept
ToISOString(t) == [iso |-> t]

\* Array.prototype.slice(start) of a JS array, start possibly negative
Slice(arr, start) ==
  LET len == Len(arr)
      k   == IF start < 0 THEN Max(len + start, 0) ELSE Min(start, len)
  IN  SubSeq(arr, k + 1, len)

-----------------------------------------------------------------------------
(* SessionManager: the Map of sessions, keyed by conversation id.  Ids are *)
(* positive; 0 stands for an absent (undefined, null, empty) id.           *)

\* uuidv4(): the n-th uuid generated; distinct calls give distinct ids
Uuidv4(n) == n

\* Map.prototype.delete on the sessions map
MapDelete(s, id) == [k \in DOMAIN s \ {id} |-> s[k]]

\* Map.prototype.set on the sessions map
MapSet(s, id, v) == [k \in DOMAIN s \cup {id} |-> IF k = id THEN v ELSE s[k]]

CreateSessionAlone(s, id, userId, t) ==
  MapSet([k \in {} |-> 0], id,
         [messages     |-> <<>>,
          lastActivity |-> t,
          metadata     |-> [userId |-> userId, startTime |-> ToISOString(t)]])

CreateSession(s, id, userId, t) ==
  MapSet(s, id, [messages     |-> <<>>,
                 lastActivity |-> t,
                 metadata     |-> [userId |-> userId, startTime |-> ToISOString(t)]])

AddMessageOverwrite(s, conversationId, role, content, t) ==
  IF conversationId = 0 THEN s
  ELSE IF conversationId \notin DOMAIN s THEN s
  ELSE [s EXCEPT ![conversationId].messages =
                    <<[role |-> role, content |-> content, timestamp |-> ToISOString(t)]>>,
                 ![conversationId].lastActivity = t]

AddMessageCreates(s, conversationId, role, content, t) ==
  IF conversationId = 0 THEN s
  ELSE LET base == IF conversationId \in DOMAIN s THEN s
                   ELSE CreateSession(s, conversationId, "null", t)
       IN [base EXCEPT ![conversationId].messages =
                    Append(@, [role |-> role, content |-> content, timestamp |-> ToISOString(t)]),
                 ![conversationId].lastActivity = t]

AddMessageRestamps(s, conversationId, role, content, t) ==
  IF conversationId = 0 THEN s
  ELSE IF conversationId \notin DOMAIN s THEN s
  ELSE [s EXCEPT ![conversationId].messages =
                    Append(@, [role |-> role, content |-> content, timestamp |-> ToISOString(t)]),
                 ![conversationId].lastActivity = t,
                 ![conversationId].metadata.startTime = ToISOString(t)]

AddMessage(s, conversationId, role, content, t) ==
  IF conversationId = 0 THEN s
  ELSE IF conversationId \notin DOMAIN s THEN s
  ELSE [s EXCEPT ![conversationId].messages =
                    Append(@, [role |-> role, content |-> content, timestamp |-> ToISOString(t)]),
                 ![conversationId].lastActivity = t]

GetConversationFirstTen(s, conversationId) ==
  IF conversationId \notin DOMAIN s THEN [found |-> FALSE]
  ELSE [found    |-> TRUE,
        messages |-> SubSeq(s[conversationId].messages, 1,
                            Min(10, Len(s[conversationId].messages))),
        metadata |-> s[conversationId].metadata]

GetConversationAll(s, conversationId) ==
  IF conversationId \notin DOMAIN s THEN [found |-> FALSE]
  ELSE [found    |-> TRUE,
        messages |-> s[conversationId].messages,
        metadata |-> s[conversationId].metadata]

GetConversationDefault(s, conversationId) ==
  IF conversationId \notin DOMAIN s
  THEN [found |-> TRUE, messages |-> <<>>, metadata |-> [userId |-> "null"]]
  ELSE [found    |-> TRUE,
        messages |-> Slice(s[conversationId].messages, GetSliceStart),
        metadata |-> s[conversationId].metadata]

GetConversation(s, conversationId) ==
  IF conversationId \notin DOMAIN s THEN [found |-> FALSE]
  ELSE [found    |-> TRUE,
        messages |-> Slice(s[conversationId].messages, GetSliceStart),
        metadata |-> s[conversationId].metadata]

DeleteSessionAlwaysTrue(s, conversationId) ==
  [sessions |-> MapDelete(s, conversationId), ret |-> TRUE]

DeleteSession(s, conversationId) ==
  [sessions |-> MapDelete(s, conversationId), ret |-> conversationId \in DOMAIN s]

ClearAllCountsAfter(s) ==
  [sessions |-> [k \in {} |-> 0], ret |-> Cardinality(DOMAIN [k \in {} |-> 0])]

ClearAll(s) ==
  [sessions |-> [k \in {} |-> 0], ret |-> Cardinality(DOMAIN s)]

\* The keys of the Map in insertion order: uuids are inserted in the order
\* they are generated, and a deleted key is never inserted again.
RECURSIVE KeysInOrder(_)
KeysInOrder(ks) ==
  IF ks = {} THEN <<>>
  ELSE LET k == CHOOSE x \in ks : \A y \in ks : x <= y
       IN  <<k>> \o KeysInOrder(ks \ {k})

CleanupExpiredAtThreshold(session, t) == t - session.lastActivity >= ONE_HOUR

CleanupExpired(session, t) == t - session.lastActivity > ONE_HOUR

\* sessions.forEach with a delete inside: every entry present when it is
\* reached is visited once
RECURSIVE CleanupLoop(_, _, _)
CleanupLoop(s, keys, t) ==
  IF keys = <<>> THEN s
  ELSE LET id == Head(keys)
       IN  IF id \in DOMAIN s /\ CleanupExpired(s[id], t)
           THEN CleanupLoop(MapDelete(s, id), Tail(keys), t)
           ELSE CleanupLoop(s, Tail(keys), t)

CleanupInactive(s, t) == CleanupLoop(s, KeysInOrder(DOMAIN s), t)

-----------------------------------------------------------------------------
(* Texts.  A line is a string; a text is the sequence of its lines, so the *)
(* empty string '' is the one empty line <<"">>.                           *)

EmptyText == <<"">>

\* JS truthiness of a string
Truthy(text) == text # EmptyText

\* parts.join('\n') for an array of strings
RECURSIVE JoinNewline(_)
JoinNewline(parts) ==
  IF parts = <<>> THEN EmptyText
  ELSE IF Len(parts) = 1 THEN Head(parts)
  ELSE Head(parts) \o JoinNewline(Tail(parts))

\* parts.join('\n\n') for an array of strings
RECURSIVE JoinBlankLine(_)
JoinBlankLine(parts) ==
  IF parts = <<>> THEN EmptyText
  ELSE IF Len(parts) = 1 THEN Head(parts)
  ELSE Head(parts) \o <<"">> \o JoinBlankLine(Tail(parts))

\* arr.map(f) for a sequence
MapSeq(f(_, _), arr) == [i \in 1..Len(arr) |-> f(arr[i], i - 1)]

Pad3(n) ==
  IF n < 10 THEN "00" \o ToString(n)
  ELSE IF n < 100 THEN "0" \o ToString(n)
  ELSE ToString(n)

\* Number.prototype.toFixed(3) of a score held in thousandths
ToFixed3(v) == ToString(v \div 1000) \o "." \o Pad3(v % 1000)

-----------------------------------------------------------------------------
(* pineconeService: withRetry and searchSimilar.  A match is               *)
(* [id, hasScore, score, text]: hasScore = FALSE is a match with no score, *)
(* text = "" one with no metadata.text.                                    *)

RetryAttempts == 3

\* d.score || 0
ScoreOrZero(d) == IF d.hasScore THEN d.score ELSE 0

\* one step of the (stable) sort: insert d after every element that does
\* not compare greater than it under (a, b) => (b.score||0) - (a.score||0)
RECURSIVE InsertDesc(_, _)
InsertDesc(sorted, d) ==
  IF sorted = <<>> THEN <<d>>
  ELSE IF ScoreOrZero(Head(sorted)) >= ScoreOrZero(d)
       THEN <<Head(sorted)>> \o InsertDesc(Tail(sorted), d)
       ELSE <<d>> \o sorted

RECURSIVE SortMatches(_)
SortMatches(matches) ==
  IF matches = <<>> THEN <<>>
  ELSE InsertDesc(SortMatches(SubSeq(matches, 1, Len(matches) - 1)),
                  matches[Len(matches)])

SearchSimilarUnsorted(indexMatches) == indexMatches

\* the value one successful attempt of searchSimilar returns
SearchSimilarResult(indexMatches) == SortMatches(indexMatches)

-----------------------------------------------------------------------------
(* ragService: getRelevantContext and generateRAGResponse;                 *)
(* ollamaService: generateResponse.                                        *)

HistoryTailStart == -5
HighThreshold == 700
MediumThreshold == 400

SystemPrompt ==
  "You are an enterprise AI assistant. Use the following context to answer questions accurately. "
  \o "If the context doesn't contain the answer, say that the information is not available in the knowledge base "
  \o "and avoid making up facts."

FallbackText ==
  "I encountered an error while trying to answer that question using the knowledge base. "
  \o "You may try again in a moment, or contact an administrator if the problem persists."

\* getRelevantContext, lines 15-18: one context part, two lines
ContextPart(m, idx) ==
  << "Source " \o ToString(idx + 1) \o " (score: "
       \o (IF m.hasScore THEN ToFixed3(m.score) ELSE "n/a") \o "):",
     m.text >>

\* getRelevantContext after searchSimilar returned matches
ContextResult(matches) ==
  [contextText |-> JoinBlankLine(MapSeq(ContextPart, matches)),
   documents   |-> matches]

\* generateRAGResponse line 37
DefaultContextResult == [contextText |-> EmptyText, documents |-> <<>>]

HistoryLine(m, idx) ==
  << (IF m.role = "assistant" THEN "Assistant" ELSE "User") \o ": " \o m.content >>

HistoryTailFirstFive(conversationHistory) ==
  SubSeq(conversationHistory, 1, Min(5, Len(conversationHistory)))

HistoryTail(conversationHistory) == Slice(conversationHistory, HistoryTailStart)

RagPromptBare(contextText, historyTail, userQuery) ==
  LET historyText == JoinNewline(MapSeq(HistoryLine, historyTail))
  IN  JoinNewline(<<
        <<"System: " \o SystemPrompt>>,
        EmptyText,
        <<"Context documents:">>,
        contextText,
        EmptyText,
        <<"Recent conversation:">>,
        historyText,
        EmptyText,
        <<"User question: " \o userQuery>>,
        EmptyText,
        <<"Answer clearly and concisely. If you are unsure, say so explicitly.">> >>)

\* ragPromptParts.join('\n')
RagPrompt(contextText, historyTail, userQuery) ==
  LET historyText == JoinNewline(MapSeq(HistoryLine, historyTail))
  IN  JoinNewline(<<
        <<"System: " \o SystemPrompt>>,
        EmptyText,
        <<"Context documents:">>,
        IF Truthy(contextText) THEN contextText ELSE <<"[No context available]">>,
        EmptyText,
        <<"Recent conversation:">>,
        IF Truthy(historyText) THEN historyText ELSE <<"[No previous conversation]">>,
        EmptyText,
        <<"User question: " \o userQuery>>,
        EmptyText,
        <<"Answer clearly and concisely. If you are unsure, say so explicitly.">> >>)

\* ollamaService.generateResponse: the text posted to /api/generate
FullPrompt(prompt, conversationHistory) ==
  LET historyText == JoinNewline(MapSeq(HistoryLine, conversationHistory))
  IN  prompt \o EmptyText \o <<"Conversation so far:">> \o historyText
             \o EmptyText \o <<"Assistant:">>

ConfidenceStrict(documents) ==
  LET scores   == [i \in 1..Len(documents) |-> ScoreOrZero(documents[i])]
      maxScore == IF Len(scores) > 0
                  THEN CHOOSE x \in {scores[i] : i \in 1..Len(scores)} :
                         \A i \in 1..Len(scores) : scores[i] <= x
                  ELSE 0
  IN  IF maxScore > HighThreshold THEN "high"
      ELSE IF maxScore > MediumThreshold THEN "medium"
      ELSE "low"

\* generateRAGResponse lines 75-83
Confidence(documents) ==
  LET scores   == [i \in 1..Len(documents) |-> ScoreOrZero(documents[i])]
      maxScore == IF Len(scores) > 0
                  THEN CHOOSE x \in {scores[i] : i \in 1..Len(scores)} :
                         \A i \in 1..Len(scores) : scores[i] <= x
                  ELSE 0
  IN  IF maxScore >= HighThreshold THEN "high"
      ELSE IF maxScore >= MediumThreshold THEN "medium"
      ELSE "low"

NoResult == [response |-> "", sources |-> <<>>, confidence |-> ""]

\* a call of generateRAGResponse that has not been made; log is the history
\* of the outcomes of its external calls and indexMatches the matches the
\* index answered with, both kept for the properties only and only for a
\* call that is traced; ragPrompt is the prompt generateRAGResponse composed
\* and prompt the text generateResponse posted; lastError is withRetry's
\* variable and contextError what the catch of line 41 caught, the latter
\* also kept for the properties only
IdleCall ==
  [pc |-> "idle", userQuery |-> "", history |-> <<>>, attempt |-> 0,
   contextText |-> EmptyText, documents |-> <<>>, ragPrompt |-> <<>>,
   prompt |-> <<>>, result |-> NoResult, traced |-> FALSE, log |-> <<>>,
   indexMatches |-> <<>>, lastError |-> "", contextError |-> ""]

\* generateRAGResponse entered: runs up to the http.post of generateEmbedding
CallBegin(userQuery, conversationHistory) ==
  [IdleCall EXCEPT !.pc = "embedding", !.userQuery = userQuery,
                   !.history = conversationHistory]

\* generateEmbedding returned: withRetry starts its first attempt
CallQuery(c) == [c EXCEPT !.pc = "query", !.attempt = 0]

CallGenerateCounting(c, contextResult) ==
  LET historyTail == HistoryTail(c.history)
      ragPrompt   == RagPrompt(contextResult.contextText, historyTail, c.userQuery)
                       \o <<"Open conversations: " \o ToString(Cardinality(DOMAIN sessions))>>
  IN  [c EXCEPT !.pc = "generating",
                !.attempt = 0,
                !.lastError = "",
                !.contextText = contextResult.contextText,
                !.documents = contextResult.documents,
                !.ragPrompt = ragPrompt,
                !.prompt = FullPrompt(ragPrompt, historyTail)]

\* lines 46-73: the context is settled, the prompt is composed and posted
CallGenerate(c, contextResult) ==
  LET historyTail == HistoryTail(c.history)
      ragPrompt   == RagPrompt(contextResult.contextText, historyTail, c.userQuery)
  IN  [c EXCEPT !.pc = "generating",
                !.attempt = 0,
                !.lastError = "",
                !.contextText = contextResult.contextText,
                !.documents = contextResult.documents,
                !.ragPrompt = ragPrompt,
                !.prompt = FullPrompt(ragPrompt, historyTail)]

ContextErrorRethrown(c) == [c EXCEPT !.pc = "raised"]

\* the catch of lines 41-44: log, keep the default contextResult
OnContextError(c) == CallGenerate(c, DefaultContextResult)

\* getRelevantContext threw error into the try of lines 39-41, which only
\* prints it: noted in a call that is traced
Caught(c, error) == IF c.traced THEN [c EXCEPT !.contextError = error] ELSE c

IsLastAttemptOffByOne(i) == i = RetryAttempts

\* withRetry's catch: TRUE when the failed attempt i was the last one
IsLastAttempt(i) == i = RetryAttempts - 1

\* a failed attempt of withRetry (its catch, lines 34-40, and line 43)
OnQueryError(c, error) ==
  LET failed == [c EXCEPT !.lastError = error]
  IN  IF IsLastAttempt(failed.attempt)
      THEN OnContextError(Caught(failed, failed.lastError))
      ELSE [failed EXCEPT !.attempt = @ + 1]

OnGeneratedTopSource(c, responseText) ==
  [c EXCEPT !.pc = "returned",
            !.result = [response   |-> responseText,
                        sources    |-> SubSeq(c.documents, 1, Min(1, Len(c.documents))),
                        confidence |-> Confidence(c.documents)]]

\* lines 75-89: generateResponse returned responseText
OnGenerated(c, responseText) ==
  [c EXCEPT !.pc = "returned",
            !.result = [response   |-> responseText,
                        sources    |-> c.documents,
                        confidence |-> Confidence(c.documents)]]

RagErrorRethrown(c) == [c EXCEPT !.pc = "raised"]

RagErrorKeepsSources(c) ==
  [c EXCEPT !.pc = "returned",
            !.result = [response   |-> FallbackText,
                        sources    |-> c.documents,
                        confidence |-> Confidence(c.documents)]]

\* the catch of lines 90-101
OnRagError(c) ==
  [c EXCEPT !.pc = "returned",
            !.result = [response   |-> FallbackText,
                        sources    |-> <<>>,
                        confidence |-> "low"]]

-----------------------------------------------------------------------------
(* Inputs *)

Reqs == 1..MaxReqs
Ids == 1..MaxIds
UserIds == {"null"}
Queries == {"What is our PTO policy?"}
GenTexts == {"You get 20 days per year."}

\* the error generateEmbedding throws, and the errors an attempt of the
\* index query may throw
EmbeddingError == "Failed to generate embeddings from Ollama."
QueryErrors == {"index unavailable", "index timeout"}
ChatErrors == {"index unavailable"}

\* what the vector index holds
DocPool ==
  { [id |-> "d1", hasScore |-> TRUE,  score |-> 820, text |-> "PTO policy: 20 days/year"],
    [id |-> "d2", hasScore |-> TRUE,  score |-> 550, text |-> "Holidays"],
    [id |-> "d3", hasScore |-> FALSE, score |-> 0,   text |-> ""] }

\* the answers of the index to a query: up to n distinct matches in any order
RECURSIVE MatchLists(_)
MatchLists(n) ==
  IF n = 0 THEN {<<>>}
  ELSE MatchLists(n - 1) \cup
       { Append(l, d) : l \in {x \in MatchLists(n - 1) : Len(x) = n - 1},
                        d \in DocPool }

IndexAnswers(n) ==
  { l \in MatchLists(n) : \A i, j \in 1..Len(l) : i # j => l[i] # l[j] }

\* the answers of the index to the query of a chat request
ChatAnswers ==
  { <<>>,
    <<[id |-> "d1", hasScore |-> TRUE, score |-> 820, text |-> "PTO policy: 20 days/year"]>> }

RECURSIVE HistoriesOf(_)
HistoriesOf(n) ==
  IF n = 0 THEN {<<>>}
  ELSE HistoriesOf(n - 1) \cup
       { Append(h, [role |-> ro, content |-> "turn " \o ToString(n)]) :
           h \in {x \in HistoriesOf(n - 1) : Len(x) = n - 1},
           ro \in Roles }

Histories == HistoriesOf(MaxHistory)

LongHistories == HistoriesOf(MaxLongHistory)

\* matches whose scores lie on and around the thresholds of the confidence
ScoreGrid == {0, 399, 400, 699, 700, 1000}

ScorePool ==
  { [id |-> "s" \o ToString(v), hasScore |-> TRUE, score |-> v, text |-> "doc"] :
      v \in ScoreGrid }
  \cup { [id |-> "s", hasScore |-> FALSE, score |-> 0, text |-> "doc"] }

RECURSIVE ScoreLists(_)
ScoreLists(n) ==
  IF n = 0 THEN {<<>>}
  ELSE ScoreLists(n - 1) \cup
       { Append(l, d) : l \in {x \in ScoreLists(n - 1) : Len(x) = n - 1},
                        d \in ScorePool }

ScoreAnswers(n) ==
  { l \in ScoreLists(n) : \A i, j \in 1..Len(l) : i # j => l[i] # l[j] }

\* the answers of the index when the prompt is studied
PromptAnswers == IndexAnswers(1)

\* the answers of the index to a direct call, from either pool
RagAnswers == IndexAnswers(MaxMatches)
ScoredAnswers == ScoreAnswers(MaxMatches)

-----------------------------------------------------------------------------
(* State *)

EmptyMap == [k \in {} |-> 0]

NoResponse == [status |-> 0]

\* given is the conversationId of the request's body, 0 when it has none
\* the bulk-add route at rest: n documents in the body, embedded of them
\* embedded so far, upserts[i] the call of upsertDocument for document i
IdleBulk ==
  [pc |-> "idle", n |-> 0, embedded |-> 0, upserts |-> <<>>, added |-> 0, failed |-> 0,
   response |-> NoResponse]

\* the chat client before its component is mounted; conversationId = 0 is
\* null, awaiting names the handler suspended on a request, slot the request
Unmounted ==
  [mounted |-> FALSE, messages |-> <<>>, conversationId |-> 0, loading |-> FALSE,
   error |-> "", showError |-> FALSE, awaiting |-> "none", slot |-> 0]

IdleReq ==
  [pc |-> "idle", given |-> 0, conversationId |-> 0, message |-> "", response |-> NoResponse]

Init ==
  /\ sessions = EmptyMap
  /\ nextId = 1
  /\ now = 0
  /\ nextSweep = FIFTEEN_MINUTES
  /\ rag = [r \in Reqs |-> IdleCall]
  /\ req = [r \in Reqs |-> IdleReq]
  /\ last = [op |-> "init", id |-> 0, ret |-> 0]
  /\ bulk = IdleBulk
  /\ client = Unmounted
  /\ storage = EmptyMap

MaxTime == MaxPeriods * FIFTEEN_MINUTES
Quantum == FIFTEEN_MINUTES \div TicksPerPeriod

-----------------------------------------------------------------------------
(* The SessionManager's operations, called directly *)

RECURSIVE MessageCount(_, _)
MessageCount(s, ks) ==
  IF ks = {} THEN 0
  ELSE LET k == CHOOSE x \in ks : TRUE
       IN  Len(s[k].messages) + MessageCount(s, ks \ {k})

\* the store holds fewer than n messages
RoomFor(n) == MessageCount(sessions, DOMAIN sessions) < n

StoreCreate ==
  /\ nextId <= MaxIds
  /\ \E userId \in UserIds :
       sessions' = CreateSession(sessions, Uuidv4(nextId), userId, now)
  /\ nextId' = nextId + 1
  /\ last' = [op |-> "createSession", id |-> Uuidv4(nextId), ret |-> Uuidv4(nextId)]
  /\ UNCHANGED <<now, nextSweep, rag, req, bulk, client, storage>>

StoreAdd(room, roles) ==
  /\ room
  /\ \E id \in {0} \cup Ids, role \in roles, content \in Contents :
       /\ sessions' = AddMessage(sessions, id, role, content, now)
       /\ last' = [op |-> "addMessage", id |-> id, ret |-> 0]
  /\ UNCHANGED <<nextId, now, nextSweep, rag, req, bulk, client, storage>>

\* addMessage called by the turns of a conversation: a user message on an
\* even number of messages, an assistant message on an odd one
StoreAddTurn(room) ==
  /\ room
  /\ \E id \in DOMAIN sessions, content \in Contents :
       LET role == IF Len(sessions[id].messages) % 2 = 0 THEN "user" ELSE "assistant"
       IN  /\ sessions' = AddMessage(sessions, id, role, content, now)
           /\ last' = [op |-> "addMessage", id |-> id, ret |-> 0]
  /\ UNCHANGED <<nextId, now, nextSweep, rag, req, bulk, client, storage>>

StoreGetTouches ==
  /\ \E id \in Ids :
       /\ last' = [op |-> "getConversation", id |-> id, ret |-> GetConversation(sessions, id)]
       /\ sessions' = IF id \in DOMAIN sessions
                       THEN [sessions EXCEPT ![id].lastActivity = now]
                       ELSE sessions
  /\ UNCHANGED <<nextId, now, nextSweep, rag, req, bulk, client, storage>>

StoreGet ==
  /\ \E id \in Ids :
       last' = [op |-> "getConversation", id |-> id, ret |-> GetConversation(sessions, id)]
  /\ UNCHANGED <<sessions, nextId, now, nextSweep, rag, req, bulk, client, storage>>

StoreDelete ==
  /\ \E id \in Ids :
       /\ sessions' = DeleteSession(sessions, id).sessions
       /\ last' = [op |-> "deleteSession", id |-> id, ret |-> DeleteSession(sessions, id).ret]
  /\ UNCHANGED <<nextId, now, nextSweep, rag, req, bulk, client, storage>>

StoreClearAll ==
  /\ sessions' = ClearAll(sessions).sessions
  /\ last' = [op |-> "clearAll", id |-> 0, ret |-> ClearAll(sessions).ret]
  /\ UNCHANGED <<nextId, now, nextSweep, rag, req, bulk, client, storage>>

\* time passes by step, but not past the moment the interval timer is due
Tick(step) ==
  /\ now < nextSweep
  /\ Min(now + step, nextSweep) <= MaxTime
  /\ now' = Min(now + step, nextSweep)
  /\ last' = [op |-> "tick", id |-> 0, ret |-> 0]
  /\ UNCHANGED <<sessions, nextId, nextSweep, rag, req, bulk, client, storage>>

\* the setInterval callback of the constructor
TimerFires ==
  /\ now = nextSweep
  /\ sessions' = CleanupInactive(sessions, now)
  /\ nextSweep' = nextSweep + FIFTEEN_MINUTES
  /\ last' = [op |-> "cleanupInactive", id |-> 0,
               ret |-> Cardinality(DOMAIN sessions) - Cardinality(DOMAIN sessions')]
  /\ UNCHANGED <<nextId, now, rag, req, bulk, client, storage>>

-----------------------------------------------------------------------------
(* The chat route, POST /api/chat.  A handler runs without interruption    *)
(* from one await to the next; the only await of the route is the call of  *)
(* generateRAGResponse.                                                    *)

\* lines 307-311: the sources as the response carries them
ResponseSources(sources) ==
  [i \in 1..Len(sources) |-> [text |-> sources[i].text, score |-> ScoreOrZero(sources[i]),
                              hasScore |-> sources[i].hasScore]]

\* lines 303-319 (ragResult returned) and 320-324 (it threw): the rest of the
\* handler of request r once its call c of generateRAGResponse has ended
RouteResumeStale(r, c) ==
  LET id     == req[r].conversationId
      stored == rag[r].history
                  \o <<[role |-> "user", content |-> req[r].message,
                        timestamp |-> ToISOString(now)]>>
                  \o <<[role |-> "assistant", content |-> c.result.response,
                        timestamp |-> ToISOString(now)]>>
  IN  [sessions |-> IF id \in DOMAIN sessions
                    THEN [sessions EXCEPT ![id].messages = stored, ![id].lastActivity = now]
                    ELSE sessions,
       req      |-> [req EXCEPT ![r].pc = "responded",
                       ![r].response =
                         [status         |-> 200,
                          conversationId |-> id,
                          response       |-> c.result.response,
                          sources        |-> ResponseSources(c.result.sources),
                          confidence     |-> c.result.confidence,
                          timestamp      |-> ToISOString(now)]]]

RouteResume(r, c) ==
  IF c.pc = "returned"
  THEN [sessions |-> AddMessage(sessions, req[r].conversationId, "assistant",
                                c.result.response, now),
        req      |-> [req EXCEPT ![r].pc = "responded",
                        ![r].response =
                          [status         |-> 200,
                           conversationId |-> req[r].conversationId,
                           response       |-> c.result.response,
                           sources        |-> ResponseSources(c.result.sources),
                           confidence     |-> c.result.confidence,
                           timestamp      |-> ToISOString(now)]]]
  ELSE [sessions |-> sessions,
        req      |-> [req EXCEPT ![r].pc = "responded",
                        ![r].response =
                          [status |-> 500, error |-> "Failed to process chat request."]]]

\* an outcome of an external call, noted in the call's log
Logged(c, event) == IF c.traced THEN [c EXCEPT !.log = Append(@, event)] ELSE c

\* queryResponse.matches of the attempt that succeeded, noted in the call
Fetched(c, answer) == IF c.traced THEN [c EXCEPT !.indexMatches = answer] ELSE c

CallStepStores(r, event, ret, c) ==
  LET ended == c.pc \in {"returned", "raised"}
      ends  == ended /\ req[r].pc = "awaiting"
      reply == [role |-> "assistant", content |-> c.result.response,
                timestamp |-> ToISOString(now)]
  IN  /\ rag' = [rag EXCEPT ![r] = c]
      /\ sessions' = IF ends THEN RouteResume(r, c).sessions
                      ELSE IF ended
                      THEN [id \in DOMAIN sessions |->
                              [sessions[id] EXCEPT !.messages = Append(@, reply)]]
                      ELSE sessions
      /\ req' = IF ends THEN RouteResume(r, c).req ELSE req
      /\ last' = [op |-> event, id |-> r, ret |-> ret]
      /\ UNCHANGED <<nextId, now, nextSweep, bulk, client, storage>>

\* the call of request slot r moves to c; when that ends the call and the
\* chat route is awaiting it, the route's continuation runs in the same step
CallStep(r, event, ret, c) ==
  LET ends == c.pc \in {"returned", "raised"} /\ req[r].pc = "awaiting"
  IN  /\ rag' = [rag EXCEPT ![r] = c]
      /\ sessions' = IF ends THEN RouteResume(r, c).sessions ELSE sessions
      /\ req' = IF ends THEN RouteResume(r, c).req ELSE req
      /\ last' = [op |-> event, id |-> r, ret |-> ret]
      /\ UNCHANGED <<nextId, now, nextSweep, bulk, client, storage>>

\* generateEmbedding returned a vector
EmbeddingReturns(r) ==
  /\ rag[r].pc = "embedding"
  /\ CallStep(r, "embeddingReturned", "", CallQuery(Logged(rag[r], "embeddingReturned")))

EmbeddingFailsQueries(r) ==
  /\ rag[r].pc = "embedding"
  /\ CallStep(r, "embeddingFailed", EmbeddingError,
              CallQuery(Caught(Logged(rag[r], "embeddingFailed"), EmbeddingError)))

\* generateEmbedding threw
EmbeddingFails(r) ==
  /\ rag[r].pc = "embedding"
  /\ CallStep(r, "embeddingFailed", EmbeddingError,
              OnContextError(Caught(Logged(rag[r], "embeddingFailed"), EmbeddingError)))

\* an attempt of searchSimilar got the index's answer
QueryReturns(r, answers) ==
  /\ rag[r].pc = "query"
  /\ \E answer \in answers :
       CallStep(r, "queryReturned", "",
                CallGenerate(Fetched(Logged(rag[r], "queryReturned"), answer),
                             ContextResult(SearchSimilarResult(answer))))

\* an attempt of searchSimilar threw
QueryFails(r, errors) ==
  /\ rag[r].pc = "query"
  /\ \E error \in errors :
       CallStep(r, "queryFailed", error,
                OnQueryError(Logged(rag[r], "queryFailed"), error))

\* generateResponse returned text
GenerateReturns(r) ==
  /\ rag[r].pc = "generating"
  /\ \E text \in GenTexts :
       CallStep(r, "generateReturned", text,
                OnGenerated(Logged(rag[r], "generateReturned"), text))

\* generateResponse threw
GenerateFails(r) ==
  /\ rag[r].pc = "generating"
  /\ CallStep(r, "generateFailed", "", OnRagError(Logged(rag[r], "generateFailed")))

\* generateRAGResponse called on its own, by a caller that is not the route
DirectCall(r, histories) ==
  /\ req[r].pc = "idle"
  /\ rag[r].pc \in {"idle", "returned"}
  /\ \E q \in Queries, h \in histories :
       rag' = [rag EXCEPT ![r] = [CallBegin(q, h) EXCEPT !.traced = TRUE]]
  /\ last' = [op |-> "answerQuery", id |-> r, ret |-> ""]
  /\ UNCHANGED <<sessions, nextId, now, nextSweep, req, bulk, client, storage>>

\* POST /api/chat with body {message, conversationId}; given = 0 is a body
\* without conversationId.  Requests are numbered in the order they arrive.
\* Requests are numbered in the order they arrive.
ChatRoute(r, message, given) ==
  LET create       == given = 0
      id           == IF create THEN Uuidv4(nextId) ELSE given
      s1           == IF create THEN CreateSession(sessions, id, "null", now)
                      ELSE sessions
      conversation == GetConversation(s1, id)
  IN  /\ req[r].pc = "idle"
      /\ rag[r].pc = "idle"
      /\ \A earlier \in 1..(r - 1) : req[earlier].pc # "idle"
      /\ create => nextId <= MaxIds
      /\ nextId' = IF create THEN nextId + 1 ELSE nextId
      /\ IF ~conversation.found
         THEN /\ sessions' = s1
              /\ rag' = rag
              /\ req' = [req EXCEPT ![r] =
                    [pc |-> "responded", given |-> given, conversationId |-> id,
                     message |-> message,
                     response |-> [status |-> 404, error |-> "Conversation not found."]]]
         ELSE /\ sessions' = AddMessage(s1, id, "user", message, now)
              /\ rag' = [rag EXCEPT ![r] = CallBegin(message, conversation.messages)]
              /\ req' = [req EXCEPT ![r] =
                    [pc |-> "awaiting", given |-> given, conversationId |-> id,
                     message |-> message, response |-> NoResponse]]
      /\ last' = [op |-> "postChat", id |-> r, ret |-> id]

\* a request of a caller that is not the chat client
PostChat(r) ==
  /\ \E message \in Queries, given \in {0} \cup Ids : ChatRoute(r, message, given)
  /\ UNCHANGED <<now, nextSweep, bulk, client, storage>>

-----------------------------------------------------------------------------
(* The bulk-add route, POST /api/knowledge/bulk-add.  Each call of         *)
(* upsertDocument runs withRetry around index.upsert; the calls are in     *)
(* flight together and settle in any order.                                *)

Docs == 1..MaxDocs

\* upsertDocument as the route's map callback starts it: attempt 0 of
\* withRetry is awaiting index.upsert
UpsertBegin == [pc |-> "upserting", attempt |-> 0]

Settled(upserts) == \A i \in 1..Len(upserts) : upserts[i].pc # "upserting"

\* lines 121-126: Promise.all resolves once every upsert promise has
\* settled, and the handler answers with the two counters
BulkSettle(b) ==
  IF Settled(b.upserts)
  THEN [b EXCEPT !.pc = "responded",
                 !.response = [status |-> 200, added |-> b.added, failed |-> b.failed]]
  ELSE b

\* lines 90-101: a valid body of n documents; generateEmbedding is awaited
BulkAdd ==
  /\ bulk.pc \in {"idle", "responded"}
  /\ \E n \in Docs : bulk' = [IdleBulk EXCEPT !.pc = "embedding", !.n = n]
  /\ last' = [op |-> "bulkAdd", id |-> 0, ret |-> 0]
  /\ UNCHANGED <<sessions, nextId, now, nextSweep, rag, req, client, storage>>

\* ollamaService.js 73-89: the provider returned the embedding of one more
\* text; after the last one the route starts every upsert (lines 103-119)
BulkEmbeddingReturns ==
  /\ bulk.pc = "embedding"
  /\ bulk' = IF bulk.embedded + 1 = bulk.n
             THEN [bulk EXCEPT !.embedded = @ + 1, !.pc = "upserting",
                               !.upserts = [i \in 1..bulk.n |-> UpsertBegin]]
             ELSE [bulk EXCEPT !.embedded = @ + 1]
  /\ last' = [op |-> "bulkEmbeddingReturned", id |-> 0, ret |-> 0]
  /\ UNCHANGED <<sessions, nextId, now, nextSweep, rag, req, client, storage>>

\* ollamaService.js 82-94 and lines 127-131: the provider failed on a text;
\* generateEmbedding throws and the route answers 500
BulkEmbeddingFails ==
  /\ bulk.pc = "embedding"
  /\ bulk' = [bulk EXCEPT !.pc = "responded",
                          !.response = [status |-> 500,
                                        error  |-> "Failed to bulk add knowledge documents."]]
  /\ last' = [op |-> "bulkEmbeddingFailed", id |-> 0, ret |-> 0]
  /\ UNCHANGED <<sessions, nextId, now, nextSweep, rag, req, client, storage>>

\* index.upsert of document i resolved: withRetry returns, the promise is
\* fulfilled and the then callback counts it (lines 111-113)
UpsertReturns(i) ==
  /\ bulk.pc = "upserting"
  /\ i \in 1..Len(bulk.upserts)
  /\ bulk.upserts[i].pc = "upserting"
  /\ bulk' = BulkSettle([bulk EXCEPT !.upserts[i].pc = "fulfilled", !.added = @ + 1])
  /\ last' = [op |-> "upsertReturned", id |-> i, ret |-> 0]
  /\ UNCHANGED <<sessions, nextId, now, nextSweep, rag, req, client, storage>>

UpsertFailedCountsAttempt(b, i) ==
  IF IsLastAttempt(b.upserts[i].attempt)
  THEN [b EXCEPT !.upserts[i].pc = "rejected", !.failed = @ + 1]
  ELSE [b EXCEPT !.upserts[i].attempt = @ + 1, !.failed = @ + 1]

\* an attempt of index.upsert for document i threw: withRetry tries again
\* unless it was the last attempt, and then the promise is rejected and the
\* catch callback counts it (lines 114-118)
UpsertFailed(b, i) ==
  IF IsLastAttempt(b.upserts[i].attempt)
  THEN [b EXCEPT !.upserts[i].pc = "rejected", !.failed = @ + 1]
  ELSE [b EXCEPT !.upserts[i].attempt = @ + 1]

UpsertFails(i) ==
  /\ bulk.pc = "upserting"
  /\ i \in 1..Len(bulk.upserts)
  /\ bulk.upserts[i].pc = "upserting"
  /\ bulk' = BulkSettle(UpsertFailed(bulk, i))
  /\ last' = [op |-> "upsertFailed", id |-> i, ret |-> 0]
  /\ UNCHANGED <<sessions, nextId, now, nextSweep, rag, req, client, storage>>

-----------------------------------------------------------------------------
(* The chat client, ChatInterface.jsx.  storage is the browser's           *)
(* localStorage, a map from the keys present to their values.  A handler   *)
(* runs to its first await; the render that follows it and the effects of  *)
(* that render belong to the same step.  A message is [role, content].     *)

STORAGE_KEY_MESSAGES == "enterprise-ai-assistant:messages"
STORAGE_KEY_CONVERSATION == "enterprise-ai-assistant:conversationId"

\* JSON.stringify of the message list, and JSON.parse of such a text
JsonStringify(value) == [json |-> value]
JsonParse(text) == text.json

SetItem(st, key, value) ==
  [k \in DOMAIN st \cup {key} |-> IF k = key THEN value ELSE st[k]]

RemoveItem(st, key) == MapDelete(st, key)

\* the state updates a render is given: for each hook the values set
NoUpdates == [messages |-> <<>>, conversationId |-> <<>>]

\* lines 18-32: what the restore effect sets from the storage it reads
RestoreEffect(st) ==
  [messages       |-> IF STORAGE_KEY_MESSAGES \in DOMAIN st
                      THEN <<JsonParse(st[STORAGE_KEY_MESSAGES])>> ELSE <<>>,
   conversationId |-> IF STORAGE_KEY_CONVERSATION \in DOMAIN st
                      THEN <<st[STORAGE_KEY_CONVERSATION]>> ELSE <<>>]

PersistEffectKeepsId(st, messages, conversationId) ==
  LET s1 == SetItem(st, STORAGE_KEY_MESSAGES, JsonStringify(messages))
  IN  IF conversationId # 0
      THEN SetItem(s1, STORAGE_KEY_CONVERSATION, conversationId)
      ELSE s1

\* lines 35-47: the persist effect of a render with this state
PersistEffect(st, messages, conversationId) ==
  LET s1 == SetItem(st, STORAGE_KEY_MESSAGES, JsonStringify(messages))
  IN  IF conversationId # 0
      THEN SetItem(s1, STORAGE_KEY_CONVERSATION, conversationId)
      ELSE RemoveItem(s1, STORAGE_KEY_CONVERSATION)

MountPersistsFirst(st) ==
  LET first   == PersistEffect(st, <<>>, 0)
      queued  == RestoreEffect(first)
      messages       == IF queued.messages # <<>> THEN queued.messages[1] ELSE <<>>
      conversationId == IF queued.conversationId # <<>> THEN queued.conversationId[1] ELSE 0
  IN  [client  |-> [Unmounted EXCEPT !.mounted = TRUE, !.messages = messages,
                                     !.conversationId = conversationId],
       storage |-> IF queued = NoUpdates THEN first
                   ELSE PersistEffect(first, messages, conversationId)]

\* lines 11-47: the component mounts.  The first render has the initial
\* state; its effects run in the order they are declared, the restore
\* effect reading the storage and the persist effect writing the initial
\* state; if the restore effect set anything, the component renders again
\* with that state and the persist effect writes it.
Mount(st) ==
  LET queued  == RestoreEffect(st)
      first   == PersistEffect(st, <<>>, 0)
      messages       == IF queued.messages # <<>> THEN queued.messages[1] ELSE <<>>
      conversationId == IF queued.conversationId # <<>> THEN queued.conversationId[1] ELSE 0
  IN  [client  |-> [Unmounted EXCEPT !.mounted = TRUE, !.messages = messages,
                                     !.conversationId = conversationId],
       storage |-> IF queued = NoUpdates THEN first
                   ELSE PersistEffect(first, messages, conversationId)]

ClientMount ==
  /\ ~client.mounted
  /\ client' = Mount(storage).client
  /\ storage' = Mount(storage).storage
  /\ last' = [op |-> "clientMounted", id |-> 0, ret |-> 0]
  /\ UNCHANGED <<sessions, nextId, now, nextSweep, rag, req, bulk>>

\* the page is closed or reloaded, at a moment when the server is not
\* handling a chat request of this client: the component's state is gone
\* and the storage stays
ClientUnmount ==
  /\ client.mounted
  /\ client.slot = 0
  /\ client' = Unmounted
  /\ last' = [op |-> "clientUnmounted", id |-> 0, ret |-> 0]
  /\ UNCHANGED <<sessions, nextId, now, nextSweep, rag, req, bulk, storage>>

\* lines 53-70 and api.js 55-63: handleSend to its await.  The input is
\* disabled while loading.  The request reaches the route, which handles it
\* to its own await, or it is lost on the way.  slots are the requests the
\* server handles together.
ClientSend(slots) ==
  /\ client.mounted
  /\ ~client.loading
  /\ Len(client.messages) < MaxClientMsgs
  /\ \E text \in Queries, reached \in BOOLEAN, r \in slots :
       LET userMessage == [role |-> "user", content |-> text]
           messages    == Append(client.messages, userMessage)
       IN  /\ client' = [client EXCEPT !.error = "", !.showError = FALSE,
                                       !.messages = messages, !.loading = TRUE,
                                       !.awaiting = "send",
                                       !.slot = IF reached THEN r ELSE 0]
           /\ storage' = PersistEffect(storage, messages, client.conversationId)
           /\ IF reached
              THEN ChatRoute(r, text, client.conversationId)
              ELSE /\ r = CHOOSE first \in slots : \A other \in slots : first <= other
                   /\ last' = [op |-> "clientSent", id |-> 0, ret |-> 0]
                   /\ UNCHANGED <<sessions, nextId, rag, req>>
  /\ UNCHANGED <<now, nextSweep, bulk>>

\* lines 76-90 and 97-99: the request succeeded with this body
OnSendResult(c, data) ==
  [c EXCEPT !.conversationId = IF data.conversationId # 0 THEN data.conversationId ELSE @,
            !.messages = Append(@, [role |-> "assistant", content |-> data.response]),
            !.loading = FALSE, !.awaiting = "none", !.slot = 0]

OnSendErrorResets(c, message) ==
  [c EXCEPT !.error = message, !.showError = TRUE, !.conversationId = 0,
            !.loading = FALSE, !.awaiting = "none", !.slot = 0]

\* lines 72-74 and 91-99: the request failed with this message
OnSendError(c, message) ==
  [c EXCEPT !.error = message, !.showError = TRUE,
            !.loading = FALSE, !.awaiting = "none", !.slot = 0]

\* api.js 25-51 and lines 70-99: the route's response reaches the client,
\* the interceptor wraps it and handleSend goes on after its await
ClientReceives ==
  /\ client.awaiting = "send"
  /\ client.slot # 0
  /\ req[client.slot].pc = "responded"
  /\ LET response == req[client.slot].response
         success  == response.status = 200
     IN  /\ client' = IF success THEN OnSendResult(client, response)
                      ELSE OnSendError(client, response.error)
         /\ storage' = IF success
                       THEN PersistEffect(storage, client'.messages, client'.conversationId)
                       ELSE storage
  /\ req' = [req EXCEPT ![client.slot] = IdleReq]
  /\ rag' = [rag EXCEPT ![client.slot] = IdleCall]
  /\ last' = [op |-> "clientReceived", id |-> client.slot, ret |-> 0]
  /\ UNCHANGED <<sessions, nextId, now, nextSweep, bulk>>

NoResponseMessage ==
  "No response from server. Please check your connection or try again later."

\* api.js 39-41: the request was lost on the way, no response will come
ClientNoResponse ==
  /\ client.awaiting = "send"
  /\ client.slot = 0
  /\ client' = OnSendError(client, NoResponseMessage)
  /\ last' = [op |-> "clientNoResponse", id |-> 0, ret |-> 0]
  /\ UNCHANGED <<sessions, nextId, now, nextSweep, rag, req, bulk, storage>>

\* lines 111-115: Clear chat with no conversationId.  The button is disabled
\* while loading and while the list is empty.
ClientClearLocal ==
  /\ client.mounted
  /\ ~client.loading
  /\ client.messages # <<>>
  /\ client.conversationId = 0
  /\ client' = [client EXCEPT !.messages = <<>>]
  /\ storage' = PersistEffect(storage, <<>>, 0)
  /\ last' = [op |-> "clientCleared", id |-> 0, ret |-> 0]
  /\ UNCHANGED <<sessions, nextId, now, nextSweep, rag, req, bulk>>

\* lines 116-121 and part_002 356-372: Clear chat with a conversationId,
\* confirmed, to its await.  The DELETE request reaches the route, which
\* deletes the session if it has it, or it is lost on the way.
ClientClear ==
  /\ client.mounted
  /\ ~client.loading
  /\ client.messages # <<>>
  /\ client.conversationId # 0
  /\ client' = [client EXCEPT !.loading = TRUE, !.awaiting = "clear"]
  /\ \E reached \in BOOLEAN :
       sessions' = IF reached THEN DeleteSession(sessions, client.conversationId).sessions
                   ELSE sessions
  /\ last' = [op |-> "clientClear", id |-> client.conversationId, ret |-> 0]
  /\ UNCHANGED <<nextId, now, nextSweep, rag, req, bulk, storage>>

\* lines 122-130: handleClearConversation after its await, whatever the
\* outcome of the request
ClientCleared ==
  /\ client.awaiting = "clear"
  /\ client' = [client EXCEPT !.loading = FALSE, !.conversationId = 0, !.messages = <<>>,
                              !.awaiting = "none"]
  /\ storage' = PersistEffect(storage, <<>>, 0)
  /\ last' = [op |-> "clientCleared", id |-> client.conversationId, ret |-> 0]
  /\ UNCHANGED <<sessions, nextId, now, nextSweep, rag, req, bulk>>

\* lines 133-135: Dismiss on the error banner
ClientDismiss ==
  /\ client.mounted
  /\ client.showError
  /\ client' = [client EXCEPT !.showError = FALSE]
  /\ last' = [op |-> "clientDismissed", id |-> 0, ret |-> 0]
  /\ UNCHANGED <<sessions, nextId, now, nextSweep, rag, req, bulk, storage>>

-----------------------------------------------------------------------------
(* Specifications *)

CallNext(r, answers, errors) ==
  \/ EmbeddingReturns(r)
  \/ EmbeddingFails(r)
  \/ QueryReturns(r, answers)
  \/ QueryFails(r, errors)
  \/ GenerateReturns(r)
  \/ GenerateFails(r)

\* the store under every sequence of its operations and of timer sweeps,
\* the operations falling on the instants the timer is due
StoreNext ==
  \/ StoreCreate
  \/ StoreAdd(RoomFor(MaxMsgs), {"user"})
  \/ StoreGet
  \/ StoreDelete
  \/ StoreClearAll
  \/ Tick(FIFTEEN_MINUTES)
  \/ TimerFires

SpecStore == Init /\ [][StoreNext]_vars

\* one conversation grown past the window of getConversation
HistoryNext ==
  \/ (sessions = EmptyMap /\ StoreCreate)
  \/ StoreAdd(RoomFor(MaxHistMsgs), Roles)
  \/ StoreGet

SpecHistory == Init /\ [][HistoryNext]_vars

\* generateRAGResponse under every outcome of its external calls
RagNext ==
  \/ DirectCall(1, Histories)
  \/ CallNext(1, RagAnswers, QueryErrors)

SpecRag == Init /\ [][RagNext]_vars

\* generateRAGResponse with each of its external calls ending sooner or
\* later, the index answering with at most one match
RagFairNext ==
  \/ DirectCall(1, Histories)
  \/ CallNext(1, PromptAnswers, QueryErrors)

SpecRagFair ==
  Init /\ [][RagFairNext]_vars /\ WF_vars(CallNext(1, PromptAnswers, QueryErrors))

\* generateRAGResponse over matches scored on and around the thresholds
ScoresNext ==
  \/ DirectCall(1, {<<>>})
  \/ CallNext(1, ScoredAnswers, QueryErrors)

SpecScores == Init /\ [][ScoresNext]_vars

\* generateRAGResponse over histories longer than the window of the prompt
PromptNext ==
  \/ DirectCall(1, LongHistories)
  \/ CallNext(1, PromptAnswers, QueryErrors)

SpecPrompt == Init /\ [][PromptNext]_vars

\* generateRAGResponse, called on its own or by the chat route, beside a
\* store that other callers fill
FrameNext ==
  \/ StoreCreate
  \/ StoreAdd(RoomFor(MaxMsgs), {"user"})
  \/ StoreDelete
  \/ DirectCall(1, Histories)
  \/ PostChat(1)
  \/ CallNext(1, ChatAnswers, ChatErrors)

SpecFrame == Init /\ [][FrameNext]_vars

\* two callers of generateRAGResponse, their calls overlapping or following
\* one another, beside a store that changes
Callers == {1, 2}
ShortHistories == HistoriesOf(1)

TwoCallsNext ==
  \/ StoreCreate
  \/ StoreDelete
  \/ \E r \in Callers : DirectCall(r, ShortHistories)
  \/ \E r \in Callers : CallNext(r, ChatAnswers, ChatErrors)

SpecTwoCalls == Init /\ [][TwoCallsNext]_vars

\* one chat request on a conversation grown past the window of
\* getConversation, other callers appending to it meanwhile
SnapshotNext ==
  \/ (sessions = EmptyMap /\ StoreCreate)
  \/ StoreAddTurn(RoomFor(MaxHistMsgs + 2))
  \/ PostChat(1)
  \/ CallNext(1, ChatAnswers, ChatErrors)

SpecSnapshot == Init /\ [][SnapshotNext]_vars

\* one chat request against the other routes, the clock and the timer
ExpiryNext ==
  \/ PostChat(1)
  \/ CallNext(1, ChatAnswers, ChatErrors)
  \/ StoreDelete
  \/ StoreClearAll
  \/ Tick(Quantum)
  \/ TimerFires

SpecExpiry == Init /\ [][ExpiryNext]_vars

\* one bulk-add request after another, the upserts of a request settling
\* in any order
BulkNext ==
  \/ BulkAdd
  \/ BulkEmbeddingReturns
  \/ BulkEmbeddingFails
  \/ \E i \in Docs : UpsertReturns(i)
  \/ \E i \in Docs : UpsertFails(i)

SpecBulk == Init /\ [][BulkNext]_vars

\* one browser tab with the chat client, mounted again and again, and the
\* server behind it, handling one chat request at a time, where another
\* caller may delete a conversation
ClientNext ==
  \/ ClientMount
  \/ ClientUnmount
  \/ ClientSend({1})
  \/ ClientReceives
  \/ ClientNoResponse
  \/ ClientClearLocal
  \/ ClientClear
  \/ ClientCleared
  \/ ClientDismiss
  \/ CallNext(1, ChatAnswers, ChatErrors)
  \/ StoreDelete

SpecClient == Init /\ [][ClientNext]_vars

\* chat requests in flight together, and the other routes, at one instant
Next ==
  \/ \E r \in Reqs : PostChat(r)
  \/ \E r \in Reqs : CallNext(r, ChatAnswers, ChatErrors)
  \/ StoreDelete
  \/ StoreClearAll

Spec == Init /\ [][Next]_vars

-----------------------------------------------------------------------------
(* Properties of generateRAGResponse (answerQuery), under SpecRag *)

Count(log, event) == Cardinality({i \in 1..Len(log) : log[i] = event})

\* retrieval failed: the embedding call failed, or three attempts of the
\* index query failed
RetrievalFailed(c) ==
  \/ Count(c.log, "embeddingFailed") > 0
  \/ Count(c.log, "queryFailed") = 3

WellFormedResult(result) ==
  /\ result.response \in STRING
  /\ result.response # ""
  /\ result.sources \in Seq(DocPool)
  /\ result.confidence \in {"high", "medium", "low"}

C1_NeverRaises ==
  /\ rag[1].pc # "raised"
  /\ rag[1].pc = "returned" => WellFormedResult(rag[1].result)
  /\ rag[1].pc = "returned" <=>
       (rag[1].log # <<>> /\
        rag[1].log[Len(rag[1].log)] \in {"generateReturned", "generateFailed"})

\* C1: answerQuery never raises and, whatever the outcomes of the embedding
\* call, of the index query's attempts and of the generation call, it
\* returns a well-formed result once they have all ended
C1_AlwaysWellFormed ==
  /\ []C1_NeverRaises
  /\ (rag[1].pc = "embedding") ~> (rag[1].pc = "returned")

C1_Witness ==
  /\ rag[1].pc = "returned"
  /\ Count(rag[1].log, "queryFailed") = 3
  /\ Count(rag[1].log, "generateFailed") = 1

\* C2: when the generation call fails, the result is the fixed apology with
\* no sources and confidence low, whatever retrieval returned
C2_GenerationFailure ==
  last.op = "generateFailed" =>
    /\ rag[last.id].pc = "returned"
    /\ rag[last.id].result.response = FallbackText
    /\ rag[last.id].result.sources = <<>>
    /\ rag[last.id].result.confidence = "low"

C2_Witness ==
  /\ last.op = "generateFailed"
  /\ rag[last.id].pc = "returned"
  /\ \E i \in 1..Len(rag[last.id].documents) :
       rag[last.id].documents[i].hasScore /\ rag[last.id].documents[i].score >= 700

\* C3: when retrieval fails the call goes on with no context and no
\* documents, the provider gets the prompt with the '[No context available]'
\* placeholder, and a successful generation gives the generated text, no
\* sources and confidence low
C3_RetrievalFailure ==
  RetrievalFailed(rag[1]) =>
    /\ rag[1].pc \in {"generating", "returned"}
    /\ rag[1].documents = <<>>
    /\ rag[1].contextText = <<"">>
    /\ Len(rag[1].prompt) >= 4
    /\ rag[1].prompt[3] = "Context documents:"
    /\ rag[1].prompt[4] = "[No context available]"
    /\ last.op = "generateReturned" =>
         /\ rag[1].pc = "returned"
         /\ rag[1].result = [response |-> last.ret, sources |-> <<>>, confidence |-> "low"]

C3_Witness ==
  /\ Count(rag[1].log, "queryFailed") = 3
  /\ last.op = "generateReturned"
  /\ rag[1].pc = "returned"

-----------------------------------------------------------------------------
(* Properties of the SessionManager, under SpecHistory and SpecStore *)

IsPrefix(a, b) == Len(a) <= Len(b) /\ SubSeq(b, 1, Len(a)) = a

\* C4: getConversation returns the last 10 messages in append order, and
\* all of them when there are 10 or fewer
C4_LastTen ==
  (last.op = "getConversation" /\ last.id \in DOMAIN sessions) =>
    LET all == sessions[last.id].messages
        got == last.ret.messages
    IN  /\ last.ret.found
        /\ Len(got) = IF Len(all) > 10 THEN 10 ELSE Len(all)
        /\ \A i \in 1..Len(got) : got[i] = all[Len(all) - Len(got) + i]

C4_Witness ==
  /\ last.op = "getConversation"
  /\ last.id \in DOMAIN sessions
  /\ Len(sessions[last.id].messages) > 10
  /\ sessions[last.id].messages[1].role # sessions[last.id].messages[11].role

\* C5: over any step of the store, the messages of a conversation that
\* still exists extend what they were
C5_AppendOnly ==
  [][\A id \in DOMAIN sessions \cap DOMAIN sessions' :
       IsPrefix(sessions[id].messages, sessions'[id].messages)]_vars

C5_Witness ==
  /\ last.op = "addMessage"
  /\ last.id \in DOMAIN sessions
  /\ Len(sessions[last.id].messages) = 2
  /\ now > 0

\* C6: addMessage with an absent or unknown conversation id changes nothing
C6_UnknownIdNoOp ==
  [][(last'.op = "addMessage" /\ (last'.id = 0 \/ last'.id \notin DOMAIN sessions))
       => sessions' = sessions]_vars

C6_Witness ==
  /\ last.op = "addMessage"
  /\ last.id # 0
  /\ last.id \notin DOMAIN sessions
  /\ sessions # <<>>

HourMs == 60 * 60 * 1000
QuarterMs == 15 * 60 * 1000

\* C7: a sweep removes the conversations idle for more than an hour and
\* leaves every other conversation as it was
C7_SweepExact ==
  [][last'.op = "cleanupInactive" =>
       /\ DOMAIN sessions' =
            {id \in DOMAIN sessions : ~(now - sessions[id].lastActivity > HourMs)}
       /\ \A id \in DOMAIN sessions' : sessions'[id] = sessions[id]]_vars

C7_Witness ==
  /\ last.op = "cleanupInactive"
  /\ last.ret = 1
  /\ \E id \in DOMAIN sessions : now - sessions[id].lastActivity = HourMs

C8_Deadline ==
  \A id \in DOMAIN sessions :
    /\ now - sessions[id].lastActivity <= HourMs + QuarterMs
    /\ now - sessions[id].lastActivity = HourMs + QuarterMs => nextSweep = now

\* C8: a conversation is gone from the store 1 hour 15 minutes after its
\* last activity at the latest, and no sweep removes it before it has been
\* idle for 1 hour
C8_ExpiryWindow ==
  /\ []C8_Deadline
  /\ [][last'.op = "cleanupInactive" =>
          \A id \in DOMAIN sessions \ DOMAIN sessions' :
            now - sessions[id].lastActivity >= HourMs]_vars

C8_Witness ==
  /\ last.op = "cleanupInactive"
  /\ last.ret > 0
  /\ now = HourMs + QuarterMs

-----------------------------------------------------------------------------
(* Properties of the chat route, under SpecExpiry and Spec *)

\* C9: a request whose conversation went away while it awaited the
\* orchestrator answers 200 with the orchestrator's text, appends nothing
\* and does not bring the conversation back
C9_DroppedOnResume ==
  [][/\ (req[1].pc = "awaiting" /\ req'[1].pc = "responded"
           /\ req[1].conversationId \notin DOMAIN sessions)
         => /\ req'[1].response.status = 200
            /\ req'[1].response.response = rag'[1].result.response
            /\ req'[1].response.conversationId = req[1].conversationId
            /\ sessions' = sessions
     /\ \A id \in 1..(nextId - 1) :
          id \notin DOMAIN sessions => id \notin DOMAIN sessions']_vars

C9_Witness ==
  /\ req[1].pc = "responded"
  /\ req[1].response.status = 200
  /\ req[1].conversationId \notin DOMAIN sessions
  /\ last.op = "generateReturned"
  /\ now > HourMs

Started(id) == {r \in Reqs : req[r].conversationId = id /\ req[r].pc = "awaiting"}
Completed(id) ==
  {r \in Reqs : req[r].conversationId = id /\ req[r].pc = "responded"
                  /\ req[r].response.status = 200}

\* the positions free of msgs can be dealt out to the requests rs, each
\* getting one for its user message and, once completed, a later one for
\* its assistant message, and none is left over
RECURSIVE Dealt(_, _, _)
Dealt(msgs, rs, free) ==
  IF rs = {} THEN free = {}
  ELSE LET r == CHOOSE x \in rs : TRUE
       IN  \E i \in free :
             /\ msgs[i].role = "user"
             /\ msgs[i].content = req[r].message
             /\ IF req[r].pc = "responded"
                THEN \E j \in free :
                       /\ j > i
                       /\ msgs[j].role = "assistant"
                       /\ msgs[j].content = req[r].response.response
                       /\ Dealt(msgs, rs \ {r}, free \ {i, j})
                ELSE Dealt(msgs, rs \ {r}, free \ {i})

\* the messages of conversation id are those of its requests, one position
\* each, a request's user message before its assistant message
Accounted(id) ==
  LET msgs == sessions[id].messages
  IN  /\ Len(msgs) = 2 * Cardinality(Completed(id)) + Cardinality(Started(id))
      /\ Dealt(msgs, Started(id) \cup Completed(id), 1..Len(msgs))

C10_NothingLost == \A id \in DOMAIN sessions : Accounted(id)

\* C10: a conversation that still exists holds one user message per request
\* begun on it and one assistant message per request completed, each append
\* placed after everything appended before it
C10_ConcurrentAppends ==
  /\ []C10_NothingLost
  /\ [][\A id \in DOMAIN sessions \cap DOMAIN sessions' :
          \/ sessions'[id].messages = sessions[id].messages
          \/ /\ Len(sessions'[id].messages) = Len(sessions[id].messages) + 1
             /\ IsPrefix(sessions[id].messages, sessions'[id].messages)]_vars

C10_Witness ==
  \E id \in DOMAIN sessions :
    /\ Cardinality(Completed(id)) = 2
    /\ Len(sessions[id].messages) = 4
    /\ sessions[id].messages[2].role = "user"

-----------------------------------------------------------------------------
(* Properties of the confidence, the sources and the prompt, under         *)
(* SpecScores, SpecRag and SpecPrompt                                      *)

\* the maximum score over matches, 0 for none, a missing score counting 0
MaxScoreOver(matches) ==
  LET vals == {IF matches[i].hasScore THEN matches[i].score ELSE 0 :
                 i \in 1..Len(matches)}
  IN  IF matches = <<>> THEN 0 ELSE CHOOSE x \in vals : \A y \in vals : y <= x

\* C11: the confidence of a generated answer is high iff the maximum score
\* over the retrieved documents is at least 0.7, medium iff it is at least
\* 0.4 and below 0.7, low otherwise (scores in thousandths)
C11_ConfidenceLabel ==
  (last.op = "generateReturned" /\ rag[1].pc = "returned") =>
    LET maxScore   == MaxScoreOver(rag[1].indexMatches)
        confidence == rag[1].result.confidence
    IN  /\ confidence = "high" <=> maxScore >= 700
        /\ confidence = "medium" <=> (400 <= maxScore /\ maxScore < 700)
        /\ confidence = "low" <=> maxScore < 400

C11_Witness ==
  /\ last.op = "generateReturned"
  /\ rag[1].pc = "returned"
  /\ Len(rag[1].indexMatches) = 2
  /\ MaxScoreOver(rag[1].indexMatches) = 700
  /\ \E i \in 1..2 : ~rag[1].indexMatches[i].hasScore
  /\ rag[1].result.confidence = "high"

\* the label the estimator gives to a sequence of sources
Estimate(sources) ==
  IF MaxScoreOver(sources) >= 700 THEN "high"
  ELSE IF MaxScoreOver(sources) >= 400 THEN "medium"
  ELSE "low"

SameDocuments(a, b) ==
  /\ Len(a) = Len(b)
  /\ {a[i] : i \in 1..Len(a)} = {b[i] : i \in 1..Len(b)}

\* C12: when retrieval and generation both succeed the result carries the
\* generated text and exactly the documents of the call's one retrieval,
\* and every result returned carries the estimator's label of its sources
C12_SourcesAndConfidence ==
  /\ (last.op = "generateReturned" /\ Count(rag[1].log, "queryReturned") > 0) =>
        /\ rag[1].pc = "returned"
        /\ rag[1].result.response = last.ret
        /\ Count(rag[1].log, "embeddingReturned") = 1
        /\ Count(rag[1].log, "queryReturned") = 1
        /\ rag[1].result.sources = rag[1].documents
        /\ SameDocuments(rag[1].result.sources, rag[1].indexMatches)
  /\ rag[1].pc = "returned" =>
        rag[1].result.confidence = Estimate(rag[1].result.sources)

C12_Witness ==
  /\ last.op = "generateReturned"
  /\ Count(rag[1].log, "queryReturned") = 1
  /\ Count(rag[1].log, "queryFailed") = 2
  /\ Len(rag[1].result.sources) = 2
  /\ rag[1].result.confidence = "medium"

ClosingInstruction == "Answer clearly and concisely. If you are unsure, say so explicitly."

\* C13: the text sent to the generation provider is exactly the composed
\* prompt, whose last section is the closing instruction, with nothing
\* appended after it
C13_SentIsComposed ==
  rag[1].pc = "generating" =>
    /\ rag[1].prompt = rag[1].ragPrompt
    /\ rag[1].prompt[Len(rag[1].prompt)] = ClosingInstruction

\* the place of the first line of text that equals line
IndexOf(text, line) ==
  CHOOSE i \in 1..Len(text) : text[i] = line /\ \A j \in 1..(i - 1) : text[j] # line

\* the lines of the composed prompt under 'Context documents:' and under
\* 'Recent conversation:', each up to the blank line that ends its section
ContextSection(c) ==
  SubSeq(c.ragPrompt, IndexOf(c.ragPrompt, "Context documents:") + 1,
         IndexOf(c.ragPrompt, "Recent conversation:") - 2)

HistorySection(c) ==
  SubSeq(c.ragPrompt, IndexOf(c.ragPrompt, "Recent conversation:") + 1,
         IndexOf(c.ragPrompt, "User question: " \o c.userQuery) - 2)

Composed(c) == c.pc \in {"generating", "returned"}

\* the entries i..Len(history), one line each
RenderedFrom(history, i) ==
  [k \in 1..(Len(history) - i + 1) |->
     (IF history[i + k - 1].role = "assistant" THEN "Assistant: " ELSE "User: ")
       \o history[i + k - 1].content]

\* C14: the 'Recent conversation' section of the composed prompt holds the
\* last 5 entries of a history of more than 5, oldest first, and all the
\* entries of a shorter one, each as a 'User:' or 'Assistant:' line
C14_LastFive ==
  (Composed(rag[1]) /\ rag[1].history # <<>>) =>
    HistorySection(rag[1]) =
      IF Len(rag[1].history) > 5
      THEN RenderedFrom(rag[1].history, Len(rag[1].history) - 4)
      ELSE RenderedFrom(rag[1].history, 1)

C14_Witness ==
  /\ rag[1].pc = "generating"
  /\ Len(rag[1].history) = 6
  /\ rag[1].history[2].role = "assistant"
  /\ Len(HistorySection(rag[1])) = 5
  /\ HistorySection(rag[1])[1] = "Assistant: turn 2"
  /\ HistorySection(rag[1])[5] = "User: turn 6"

\* C15: neither section of the composed prompt is empty; the context
\* section is '[No context available]' exactly when retrieval failed or
\* returned no documents, the history section '[No previous conversation]'
\* exactly when the history is empty
C15_Placeholders ==
  Composed(rag[1]) =>
    /\ ContextSection(rag[1]) \notin {<<>>, <<"">>}
    /\ HistorySection(rag[1]) \notin {<<>>, <<"">>}
    /\ ContextSection(rag[1]) = <<"[No context available]">>
          <=> (RetrievalFailed(rag[1]) \/ rag[1].indexMatches = <<>>)
    /\ HistorySection(rag[1]) = <<"[No previous conversation]">>
          <=> rag[1].history = <<>>

C15_Witness ==
  /\ rag[1].pc = "generating"
  /\ rag[1].history = <<>>
  /\ Count(rag[1].log, "queryReturned") = 1
  /\ rag[1].indexMatches = <<>>
  /\ ContextSection(rag[1]) = <<"[No context available]">>
  /\ HistorySection(rag[1]) = <<"[No previous conversation]">>

\* the first line of the i-th part of a context text: parts are two lines
\* each and a blank line lies between two parts
RankLine(contextText, i) == contextText[3 * (i - 1) + 1]

\* C16: the documents retrieval returns, and with them the sources of the
\* result, are the matches of the index, none dropped or added, in order of
\* non-increasing score, and the rank printed before a document in the
\* context text is its place in that order
C16_SortedPermutation ==
  (Composed(rag[1]) /\ Count(rag[1].log, "queryReturned") = 1) =>
    LET documents == rag[1].documents
    IN  /\ SameDocuments(documents, rag[1].indexMatches)
        /\ \A i, j \in 1..Len(documents) :
             i < j => ScoreOrZero(documents[i]) >= ScoreOrZero(documents[j])
        /\ \A i \in 1..Len(documents) :
             RankLine(rag[1].contextText, i) =
               "Source " \o ToString(i) \o " (score: "
                 \o (IF documents[i].hasScore THEN ToFixed3(documents[i].score) ELSE "n/a")
                 \o "):"
        /\ last.op = "generateReturned" => rag[1].result.sources = documents

C16_Witness ==
  /\ last.op = "generateReturned"
  /\ Len(rag[1].indexMatches) = 2
  /\ ScoreOrZero(rag[1].indexMatches[1]) < ScoreOrZero(rag[1].indexMatches[2])
  /\ rag[1].result.sources = <<rag[1].indexMatches[2], rag[1].indexMatches[1]>>
  /\ RankLine(rag[1].contextText, 1) = "Source 1 (score: 0.700):"

\* C17: in one call the index query is attempted at most 3 times, no
\* attempt follows a successful one, the query fails only with its third
\* failed attempt, whose error is the one surfaced, and the embedding and
\* the generation providers are called at most once each
C17_RetryIndexOnly ==
  LET log == rag[1].log
  IN  /\ Count(log, "embeddingReturned") + Count(log, "embeddingFailed") <= 1
      /\ Count(log, "generateReturned") + Count(log, "generateFailed") <= 1
      /\ Count(log, "queryReturned") + Count(log, "queryFailed") <= 3
      /\ \A i, j \in 1..Len(log) :
           (i < j /\ log[i] = "queryReturned") => log[j] \notin {"queryReturned", "queryFailed"}
      /\ rag[1].pc = "query" => Count(log, "queryFailed") < 3
      /\ (Composed(rag[1]) /\ Count(log, "embeddingReturned") = 1
            /\ Count(log, "queryReturned") = 0) => Count(log, "queryFailed") = 3
      /\ (last.op = "queryFailed" /\ Composed(rag[1])) =>
           /\ Count(log, "queryFailed") = 3
           /\ rag[1].contextError = last.ret

C17_Witness ==
  /\ last.op = "queryFailed"
  /\ rag[1].pc = "generating"
  /\ rag[1].log = <<"embeddingReturned", "queryFailed", "queryFailed", "queryFailed">>
  /\ rag[1].contextError = "index timeout"

-----------------------------------------------------------------------------
(* Properties of deleteSession, clearAll and createSession, under SpecStore *)

Untouched(ids) == \A k \in ids : sessions'[k] = sessions[k]

\* C18: deleteSession removes the named conversation and no other, returns
\* true iff it was there, and so returns false when it is repeated
C18_DeleteExact ==
  [][last'.op = "deleteSession" =>
       /\ last'.ret = (last'.id \in DOMAIN sessions)
       /\ DOMAIN sessions' = DOMAIN sessions \ {last'.id}
       /\ Untouched(DOMAIN sessions')
       /\ (last.op = "deleteSession" /\ last.id = last'.id) => last'.ret = FALSE]_vars

C18_Witness ==
  /\ last.op = "deleteSession"
  /\ last.id = 1
  /\ last.ret = TRUE
  /\ DOMAIN sessions = {2}
  /\ Len(sessions[2].messages) = 2

\* C19: clearAll leaves the store empty and returns the number of
\* conversations there were
C19_ClearAllCount ==
  [][last'.op = "clearAll" =>
       /\ sessions' = EmptyMap
       /\ last'.ret = Cardinality(DOMAIN sessions)]_vars

C19_Witness ==
  /\ last.op = "clearAll"
  /\ last.ret = 2
  /\ sessions = EmptyMap

\* C20: createSession returns an id no conversation of the store has, the
\* new conversation has no messages and the time of creation as its last
\* activity, and the conversations there were are unchanged
C20_CreateFresh ==
  [][last'.op = "createSession" =>
       /\ last'.ret \notin DOMAIN sessions
       /\ DOMAIN sessions' = DOMAIN sessions \cup {last'.ret}
       /\ sessions'[last'.ret].messages = <<>>
       /\ sessions'[last'.ret].lastActivity = now
       /\ Untouched(DOMAIN sessions)]_vars

C20_Witness ==
  /\ last.op = "createSession"
  /\ last.ret = 2
  /\ now > 0
  /\ sessions[2].messages = <<>>
  /\ sessions[2].lastActivity = now
  /\ 1 \in DOMAIN sessions
  /\ Len(sessions[1].messages) = 2
  /\ sessions[1].lastActivity < now

-----------------------------------------------------------------------------
(* Frame properties of the store and of generateRAGResponse *)

\* C21: addMessage on a conversation of the store puts one message at the
\* end of it and sets its lastActivity to the time of the call; the other
\* conversations are untouched, and no operation of the store changes the
\* metadata of a conversation
C21_AppendFrame ==
  [][(/\ (last'.op = "addMessage" /\ last'.id \in DOMAIN sessions) =>
           (/\ DOMAIN sessions' = DOMAIN sessions
            /\ Len(sessions'[last'.id].messages) = Len(sessions[last'.id].messages) + 1
            /\ IsPrefix(sessions[last'.id].messages, sessions'[last'.id].messages)
            /\ sessions'[last'.id].lastActivity = now
            /\ Untouched(DOMAIN sessions \ {last'.id}))
      /\ \A id \in DOMAIN sessions \cap DOMAIN sessions' :
           sessions'[id].metadata = sessions[id].metadata)]_vars

C21_Witness ==
  /\ last.op = "addMessage"
  /\ last.id = 1
  /\ DOMAIN sessions = {1, 2}
  /\ Len(sessions[1].messages) = 1
  /\ Len(sessions[2].messages) = 1
  /\ sessions[1].lastActivity = now
  /\ sessions[1].metadata.startTime.iso < now
  /\ sessions[2].lastActivity < now

CallEvents ==
  {"answerQuery", "embeddingReturned", "embeddingFailed", "queryReturned",
   "queryFailed", "generateReturned", "generateFailed"}

\* C22: no step of generateRAGResponse changes the store; the one change
\* made in a step that ends a call is the append of the assistant message
\* by the chat route that awaited it
C22_StoreUntouched ==
  [][last'.op \in CallEvents =>
       IF req[last'.id].pc = "awaiting" /\ req'[last'.id].pc = "responded"
       THEN sessions' = AddMessage(sessions, req[last'.id].conversationId, "assistant",
                                   rag'[last'.id].result.response, now)
       ELSE sessions' = sessions]_vars

C22_Witness ==
  /\ last.op = "generateReturned"
  /\ req[1].pc = "idle"
  /\ rag[1].pc = "returned"
  /\ rag[1].history # <<>>
  /\ DOMAIN sessions = {1, 2}
  /\ Len(sessions[1].messages) = 1
  /\ sessions[1].messages[1].role = "user"

SameInputs(a, b) ==
  /\ a.userQuery = b.userQuery
  /\ a.history = b.history
  /\ a.contextText = b.contextText
  /\ a.documents = b.documents

-----------------------------------------------------------------------------
(* Properties of the chat route and of the order of the external calls *)

\* C25: the chat endpoint creates a conversation exactly for a request with
\* no conversationId, one conversation whose id the response carries; a
\* request with an id the store does not hold is answered 404 'Conversation
\* not found.' and creates nothing, appends nothing and calls nothing
C25_CreateIffNoId ==
  [][(/\ last'.op = "postChat" =>
         (LET r == last'.id
          IN  /\ req'[r].given = 0 =>
                   /\ req'[r].conversationId \notin DOMAIN sessions
                   /\ DOMAIN sessions' = DOMAIN sessions \cup {req'[r].conversationId}
                   /\ last'.ret = req'[r].conversationId
                   /\ req'[r].pc = "awaiting"
              /\ req'[r].given # 0 => DOMAIN sessions' = DOMAIN sessions
              /\ (req'[r].given # 0 /\ req'[r].given \notin DOMAIN sessions) =>
                   /\ sessions' = sessions
                   /\ rag' = rag
                   /\ req'[r].pc = "responded"
                   /\ req'[r].response = [status |-> 404, error |-> "Conversation not found."])
      /\ last'.op # "postChat" => DOMAIN sessions' \subseteq DOMAIN sessions
      /\ \A q \in Reqs :
           (req'[q].pc = "responded" /\ req'[q].response.status = 200) =>
             req'[q].response.conversationId = req'[q].conversationId)]_vars

C25_Witness ==
  /\ last.op = "postChat"
  /\ last.id = 2
  /\ req[2].given = 1
  /\ req[2].response.status = 404
  /\ req[1].given = 0
  /\ req[1].conversationId = 1
  /\ req[1].pc = "awaiting"
  /\ sessions = EmptyMap

\* the events of a call's log that are outcomes of the embedding call, of an
\* attempt of the index query, of the generation call
EmbeddingEvents == {"embeddingReturned", "embeddingFailed"}
QueryEvents == {"queryReturned", "queryFailed"}
GenerateEvents == {"generateReturned", "generateFailed"}

\* retrieval has finished in the first n events of log
RetrievalOver(log, n) ==
  /\ n >= 1
  /\ \/ log[1] = "embeddingFailed" /\ n = 1
     \/ log[n] = "queryReturned"
     \/ log[n] = "queryFailed" /\ n = 4

\* C26: in one call the embedding call comes first, the index is queried
\* only after the embedding call succeeded, and the generation provider is
\* called once, after retrieval has finished by success or by failure
C26_CallOrder ==
  LET log == rag[1].log
  IN  /\ \A i \in 1..Len(log) :
           /\ log[i] \in EmbeddingEvents <=> i = 1
           /\ log[i] \in QueryEvents => log[1] = "embeddingReturned"
           /\ log[i] \in GenerateEvents => (i = Len(log) /\ RetrievalOver(log, i - 1))
      /\ rag[1].pc = "embedding" <=> (rag[1].pc # "idle" /\ log = <<>>)
      /\ rag[1].pc = "query" =>
           (log[1] = "embeddingReturned" /\ ~RetrievalOver(log, Len(log)))
      /\ rag[1].pc = "generating" => RetrievalOver(log, Len(log))
      /\ rag[1].pc = "returned" => log[Len(log)] \in GenerateEvents

C26_Witness ==
  /\ rag[1].pc = "returned"
  /\ rag[1].log = <<"embeddingFailed", "generateReturned">>

\* the last 10 of a list of messages, all of them when there are fewer
LastTen(messages) == SubSeq(messages, Max(1, Len(messages) - 9), Len(messages))

\* C27: the history a chat request hands to generateRAGResponse is the last
\* 10 messages the conversation held before the request's own user message
\* was appended, and appends made while the request is in flight do not
\* change it
C27_HistorySnapshot ==
  [][\A r \in Reqs :
       /\ (req[r].pc = "idle" /\ req'[r].pc = "awaiting") =>
            LET id     == req'[r].conversationId
                before == IF id \in DOMAIN sessions THEN sessions[id].messages ELSE <<>>
            IN  /\ rag'[r].history = LastTen(before)
                /\ Len(sessions'[id].messages) = Len(before) + 1
                /\ sessions'[id].messages[Len(before) + 1].role = "user"
                /\ sessions'[id].messages[Len(before) + 1].content = req'[r].message
       /\ (req[r].pc = "awaiting" /\ req'[r].pc = "awaiting") =>
            rag'[r].history = rag[r].history]_vars

C27_Witness ==
  /\ req[1].pc = "awaiting"
  /\ last.op = "addMessage"
  /\ last.id = 1
  /\ 1 \in DOMAIN sessions
  /\ Len(sessions[1].messages) = 13
  /\ Len(rag[1].history) = 10
  /\ rag[1].history = SubSeq(sessions[1].messages, 2, 11)
  /\ sessions[1].messages[1].role # sessions[1].messages[2].role

\* C28: getConversation changes nothing in the store, answers not-found for
\* an id the store does not hold, and so leaves the time a conversation
\* expires where it was
C28_ReadOnly ==
  /\ [][last'.op = "getConversation" =>
           /\ sessions' = sessions
           /\ last'.ret.found = (last'.id \in DOMAIN sessions)]_vars
  /\ []C8_Deadline

C28_Witness ==
  /\ last.op = "getConversation"
  /\ last.id = 1
  /\ last.ret.found
  /\ now - sessions[1].lastActivity = 60 * 60 * 1000
  /\ nextSweep = now + 15 * 60 * 1000

-----------------------------------------------------------------------------
(* Properties of the bulk-add route, under SpecBulk *)

Outcomes(upserts, pc) == {i \in 1..Len(upserts) : upserts[i].pc = pc}

\* C30: a bulk-add of n documents whose embedding step succeeded counts
\* every upsert exactly once whatever the order the upserts settle in: at
\* any moment added and failed are the numbers of upserts fulfilled and
\* rejected so far, a rejected one having used its three attempts, and the
\* 200 response carries added + failed = n; when the embedding step failed
\* no upsert was started and the response is the 500 of the whole request.
C30_BulkCounts ==
  /\ bulk.added = Cardinality(Outcomes(bulk.upserts, "fulfilled"))
  /\ bulk.failed = Cardinality(Outcomes(bulk.upserts, "rejected"))
  /\ \A i \in 1..Len(bulk.upserts) :
       /\ bulk.upserts[i].attempt < RetryAttempts
       /\ bulk.upserts[i].pc = "rejected" => bulk.upserts[i].attempt = RetryAttempts - 1
  /\ bulk.upserts # <<>> => (Len(bulk.upserts) = bulk.n /\ bulk.embedded = bulk.n)
  /\ (bulk.pc = "responded" /\ bulk.embedded = bulk.n) =>
       /\ bulk.response = [status |-> 200, added |-> bulk.added, failed |-> bulk.failed]
       /\ bulk.added + bulk.failed = bulk.n
       /\ Settled(bulk.upserts)
  /\ (bulk.pc = "responded" /\ bulk.embedded < bulk.n) =>
       /\ bulk.upserts = <<>>
       /\ bulk.response.status = 500
  /\ bulk.pc = "upserting" => ~Settled(bulk.upserts)

\* three documents, the third settled before the first: one fulfilled at
\* once, one after a retry, one rejected
C30_Witness ==
  /\ bulk.pc = "responded"
  /\ bulk.n = 3
  /\ last.op = "upsertReturned" /\ last.id = 1
  /\ bulk.upserts[1] = [pc |-> "fulfilled", attempt |-> 0]
  /\ bulk.upserts[2] = [pc |-> "rejected", attempt |-> 2]
  /\ bulk.upserts[3] = [pc |-> "fulfilled", attempt |-> 1]
  /\ bulk.response = [status |-> 200, added |-> 2, failed |-> 1]

-----------------------------------------------------------------------------
(* Properties of the chat client, under SpecClient *)

\* what a mount would restore from this storage
Restored(st) ==
  [messages       |-> IF STORAGE_KEY_MESSAGES \in DOMAIN st
                      THEN JsonParse(st[STORAGE_KEY_MESSAGES]) ELSE <<>>,
   conversationId |-> IF STORAGE_KEY_CONVERSATION \in DOMAIN st
                      THEN st[STORAGE_KEY_CONVERSATION] ELSE 0]

Shown(c) == [messages |-> c.messages, conversationId |-> c.conversationId]

\* C24: whenever the component is mounted and its effects have run, after
\* any sends and clears, the storage holds the current message list under
\* the messages key and the current conversationId under the id key, the
\* id key being absent when the id is null; the storage does not change
\* while the component is not mounted; and a mount ends with the messages
\* and the conversationId that the storage held before it, the storage
\* holding them still.
C24_Persisted ==
  /\ [](client.mounted =>
          /\ STORAGE_KEY_MESSAGES \in DOMAIN storage
          /\ JsonParse(storage[STORAGE_KEY_MESSAGES]) = client.messages
          /\ IF client.conversationId = 0
             THEN STORAGE_KEY_CONVERSATION \notin DOMAIN storage
             ELSE /\ STORAGE_KEY_CONVERSATION \in DOMAIN storage
                  /\ storage[STORAGE_KEY_CONVERSATION] = client.conversationId)
  /\ [][(/\ (~client.mounted /\ ~client'.mounted) => storage' = storage
         /\ last'.op = "clientUnmounted" => storage' = storage
         /\ last'.op = "clientMounted" =>
              (/\ Shown(client') = Restored(storage)
               /\ Restored(storage') = Restored(storage)))]_vars

\* a mount has just restored a conversation of two messages and its id
C24_Witness ==
  /\ last.op = "clientMounted"
  /\ client.mounted
  /\ Len(client.messages) = 2
  /\ client.messages[2].role = "assistant"
  /\ client.conversationId # 0
  /\ storage[STORAGE_KEY_CONVERSATION] = client.conversationId

NotFoundMessage == "Conversation not found."

\* the client holds the id of a conversation the server does not have
DeadId(c, s) == c.mounted /\ c.conversationId # 0 /\ c.conversationId \notin DOMAIN s

\* C29: when the response to a send is the 404 'Conversation not found',
\* the client's list stays as it was, ending with the user message of that
\* send and with no assistant message added, the error is set and shown,
\* loading ends and the conversationId stays (in the component and in the
\* storage); and while the client holds an id the server does not have, the
\* server never has it again, every send that reaches the route is answered
\* by that 404 with the store unchanged, and the id in the component and
\* the id in the storage change only by Clear chat, which sets them to null
\* (the page closing drops the component's id and leaves the stored one).
C29_NotFoundKept ==
  [][(/\ (/\ last'.op = "clientReceived"
          /\ req[last'.id].response.status = 404) =>
            (/\ client'.messages = client.messages
             /\ client.messages # <<>>
             /\ client.messages[Len(client.messages)] =
                  [role |-> "user", content |-> req[last'.id].message]
             /\ client'.error = NotFoundMessage
             /\ client'.showError
             /\ ~client'.loading
             /\ client.conversationId # 0
             /\ client'.conversationId = client.conversationId
             /\ storage' = storage)
      /\ DeadId(client, sessions) =>
            (/\ client.conversationId \notin DOMAIN sessions'
             /\ client'.conversationId # client.conversationId =>
                  (/\ client'.conversationId = 0
                   /\ last'.op \in {"clientCleared", "clientUnmounted"})
             /\ Restored(storage').conversationId # client.conversationId =>
                  (/\ Restored(storage').conversationId = 0
                   /\ last'.op = "clientCleared")
             /\ last'.op = "postChat" =>
                  (/\ sessions' = sessions
                   /\ req'[last'.id].pc = "responded"
                   /\ req'[last'.id].response =
                        [status |-> 404, error |-> NotFoundMessage])))]_vars

\* the second send in a row answered 'Conversation not found': the list
\* ends with the two user messages, after the exchange that gave the id
C29_Witness ==
  /\ last.op = "clientReceived"
  /\ DeadId(client, sessions)
  /\ client.error = NotFoundMessage
  /\ client.showError
  /\ ~client.loading
  /\ Len(client.messages) = 4
  /\ client.messages[2].role = "assistant"
  /\ client.messages[3].role = "user"
  /\ client.messages[4].role = "user"

====
